---- MODULE Spec2Model ----
(***************************************************************************)
(* Model of the UMA proposal lifecycle of the safeSnap plugin:             *)
(*   - getModuleDetailsUma  (src/src/plugins/safeSnap/utils/umaModule.ts)  *)
(*     reconciles module state, oracle state and event logs into one       *)
(*     status object;                                                      *)
(*   - HandleOutcome.vue derives the view state (questionState), shows the *)
(*     action buttons and drives approveBond / submitProposal /            *)
(*     executeProposal, each followed by a new reconciliation.             *)
(*                                                                         *)
(* JavaScript values that may be undefined are modelled as sequences of    *)
(* length at most one: << >> is undefined, << v >> is the value v.         *)
(***************************************************************************)
EXTENDS Integers, Sequences, FiniteSets, TLC

VARIABLES
  \* ---- chain, as the JSON-RPC endpoint answers ----
  now,              \* Date.now() / 1000, in whole seconds
  bondAmount,       \* module.bondAmount()
  allowance,        \* erc20.allowance(account, module)
  balance,          \* erc20.balanceOf(account)
  proposalHashes,   \* module.proposalHashes(hash): function hash -> timestamp
  oracleEvents,     \* oracle ProposePrice events of requester = module
  request,          \* oracle.getRequest(module, id, timestamp, ancillaryData)
  proposedEvents,   \* module TransactionsProposed events
  executedEvents,   \* module ProposalExecuted events
  \* ---- wallet ----
  account,          \* web3.value.account / web3Account / isAuthenticated
  walletChain,      \* chain the wallet is connected to: "right" or "wrong"
  canSwitch,        \* window.ethereum && provider.isMetaMask
  \* ---- component HandleOutcome ----
  batches,          \* props.batches
  loading,          \* ref loading
  questionDetails,  \* ref questionDetails
  actionInProgress, \* ref actionInProgress
  action2InProgress,\* ref action2InProgress
  pendingCount,     \* useTxStatus().pendingCount
  handlers,         \* running action handlers: id -> [kind, pc]
  updates,          \* updateDetails calls in flight: set of records
  started,          \* number of updateDetails calls started so far
  applied,          \* start number of the call whose result is in questionDetails
  \* ---- direct calls of getModuleDetailsUma ----
  transactions,     \* the `transactions` argument of a direct call
  \* ---- the JSON-RPC endpoint ----
  calls,            \* the chain calls that getModuleDetailsUma has issued
  bondRead,         \* a bond read (getBondDetails) taken one await at a time
  \* ---- the ABI helper of the transaction builder ----
  abiCache,         \* the cache of the memoized fetchContractABI: key -> promise
  httpFetches,      \* the HTTP requests made to explorers, as promises, in order
  abiCalls          \* the getContractABI calls made so far, in order

chainVars == <<now, bondAmount, allowance, balance, proposalHashes,
               oracleEvents, request, proposedEvents, executedEvents>>
walletVars == <<account, walletChain, canSwitch>>
viewVars == <<batches, loading, questionDetails, actionInProgress,
              action2InProgress, pendingCount, handlers, updates, started,
              applied>>
abiVars == <<abiCache, httpFetches, abiCalls>>
directVars == <<transactions, calls, bondRead, abiVars>>
vars == <<chainVars, walletVars, viewVars, directVars>>

----------------------------------------------------------------------------
(* Bounds of the model.                                                    *)

MaxTime == 3          \* the clock runs over 1..MaxTime
MaxStamp == 2         \* proposal timestamps run over 1..MaxStamp
Liveness == 1         \* module.liveness(): length of the dispute window
MaxAmount == 1        \* bond amounts, allowances and balances: 0..MaxAmount
MaxEvents == 1        \* length of each event log in a drawn chain snapshot
MaxLog == 2           \* length of each event log in a drawn event history
MaxBond == 9          \* bond amounts and allowances of a drawn bond read
MantissaBits == 2     \* bits of the significand of Number (53 in IEEE 754)
MaxClicks == 2        \* action handlers started in a run
MaxAbiCalls == 2      \* getContractABI calls made in a run

----------------------------------------------------------------------------
(* JavaScript values.                                                      *)

Undefined == << >>
Some(v) == << v >>
IsDefined(v) == v # Undefined
Opt(S) == {Undefined} \cup {Some(v) : v \in S}

\* if (b) for a value that is undefined or a boolean
Truthy(b) == IsDefined(b) /\ b[1]

\* if (!x) for a value that is undefined or a BigNumber object: every object
\* is truthy, also BigNumber.from(0)
TruthyObject(x) == IsDefined(x)

\* x == 0 for a value that is undefined or a BigNumber: undefined == 0 is
\* false, and a BigNumber is compared through its toString()
LooseEqualsZero(x) == IsDefined(x) /\ x[1] = 0

RECURSIVE Pow2(_)
Pow2(n) == IF n = 0 THEN 1 ELSE 2 * Pow2(n - 1)

RECURSIVE BitLength(_)
BitLength(n) == IF n = 0 THEN 0 ELSE 1 + BitLength(n \div 2)

\* Number(bigNumber): the nearest double, ties to even
Number(n) ==
  IF BitLength(n) <= MantissaBits THEN n
  ELSE LET unit == Pow2(BitLength(n) - MantissaBits)
           low == (n \div unit) * unit
           rest == n - low
       IN IF 2 * rest < unit THEN low
          ELSE IF 2 * rest > unit THEN low + unit
          ELSE IF (low \div unit) % 2 = 0 THEN low ELSE low + unit

----------------------------------------------------------------------------
(* Transaction batches and the ancillary data codec.                       *)

\* a transaction of a batch, as the proposal stores it
Transaction(to) == [to |-> to, operation |-> "0", value |-> 0, data |-> "0x"]

TxA == Transaction("0xA")
TxB == Transaction("0xB")

\* Number(string) for the operation kinds "0" (call) and "1" (delegatecall)
NumberOfString(s) == IF s = "1" THEN 1 ELSE 0

\* batch.transactions[0] of a batch without transactions is undefined, and
\* reading its .to throws a TypeError
getTransactionsThrows(bs) == \E i \in 1..Len(bs) : Len(bs[i].transactions) = 0

getTransactions(bs) ==
  [i \in 1..Len(bs) |->
     << bs[i].transactions[1].to,
        NumberOfString(bs[i].transactions[1].operation),
        bs[i].transactions[1].value,
        bs[i].transactions[1].data >>]

\* a well-formed address; any other string is not one
IsAddress(to) == to \in {"0xA", "0xB"}

\* defaultAbiCoder.encode throws on a call whose `to` is not an address
encodeThrows(txs) ==
  IsDefined(txs) /\ \E i \in 1..Len(txs[1]) : ~IsAddress(txs[1][i][1])

\* keccak256(defaultAbiCoder.encode([tuple[]], [transactions])): the ABI
\* encoding is injective and keccak256 is taken to be collision free
proposalHashOf(txs) == [keccak256 |-> txs]

\* pack('', pack('proposalHash', ':'), toUtf8Bytes(hash without 0x))
ancillaryDataOf(hash) == [text |-> "proposalHash:", hex |-> hash.keccak256]

toUtf8Bytes(s) == [utf8 |-> s]
toUtf8String(b) == b.utf8

ZeroAddress == "0x0000000000000000000000000000000000000000"
OracleAddress == "0xOracle"
ProposalId == "E"          \* props.proposal.id, the explanation of a proposal

----------------------------------------------------------------------------
(* The reconciliation engine: getModuleDetailsUma.                         *)

\* getBondDetails without the tests of web3Account.value
getBondDetails_ReadsAnyway(acct) ==
  [ currentUserBondAllowance |-> allowance, currentUserBalance |-> balance ]

getBondDetails(acct) ==
  [ currentUserBondAllowance |-> IF IsDefined(acct) THEN allowance ELSE 0,
    currentUserBalance |-> IF IsDefined(acct) THEN balance ELSE 0 ]

needsApprovalOf(minimumBond, currentAllowance) ==
  Number(minimumBond) > 0 /\ Number(minimumBond) > Number(currentAllowance)

\* proposalEvent: {} of the branch without transactions
EmptyObject ==
  [ expirationTimestamp |-> Undefined, isExpired |-> Undefined,
    isDisputed |-> Undefined, isSettled |-> Undefined,
    resolvedPrice |-> Undefined, proposalHash |-> Undefined,
    proposalTime |-> Undefined ]

\* the .then() of getRequest: one full proposal event. Timestamps are far
\* below 2^53, so Number(expirationTimestamp) is the timestamp itself; the
\* request is read under the event's timestamp, which is its result.timestamp.
FullProposalEvent(event, result, proposalHash) ==
  [ expirationTimestamp |-> Some(event.expirationTimestamp),
    isExpired |-> Some(now >= event.expirationTimestamp),
    isDisputed |-> Some(result.disputer # ZeroAddress),
    isSettled |-> Some(result.settled),
    resolvedPrice |-> result.resolvedPrice,
    proposalHash |-> Some(proposalHash),
    proposalTime |-> Some(event.timestamp) ]

\* the filter of the oracle events without its test of the timestamp
MatchesProposal_AncillaryOnly(event, ancillaryData, proposalHashTimestamp) ==
  event.ancillaryData = ancillaryData

MatchesProposal(event, ancillaryData, proposalHashTimestamp) ==
  /\ event.ancillaryData = ancillaryData
  /\ ToString(event.timestamp) = ToString(proposalHashTimestamp)

FirstOrUndefined(s) == IF Len(s) = 0 THEN Undefined ELSE Some(s[1])

SeqToSet(s) == {s[i] : i \in 1..Len(s)}

\* proposalExecuted taken from the execution events alone, without the
\* proposal times
proposalExecutedOf_AnyExecution(explanation, proposalHash) ==
  \E i \in 1..Len(executedEvents) : executedEvents[i].proposalHash = proposalHash

\* proposalTimes.some(time => executionTimes.includes(time))
proposalExecutedOf(explanation, proposalHash) ==
  LET thisProposalTransactionsProposedEvents ==
        SelectSeq(proposedEvents,
                  LAMBDA e : toUtf8String(e.explanation) = explanation)
      executionEvents ==
        SelectSeq(executedEvents, LAMBDA e : e.proposalHash = proposalHash)
      proposalTimes ==
        {ToString(e.proposalTime) :
           e \in SeqToSet(thisProposalTransactionsProposedEvents)}
      executionTimes ==
        {ToString(e.proposalTime) : e \in SeqToSet(executionEvents)}
  IN \E time \in proposalTimes : time \in executionTimes

\* The status object. Of its fields the model keeps those that the view
\* reads or that depend on chain state; dao, rules, expiration, collateral,
\* decimals and symbol are configuration copied through unchanged.
getModuleDetailsUma(acct, explanation, txs) ==
  LET bondDetails == getBondDetails(acct)
      minimumBond == bondAmount
      needsApproval ==
        needsApprovalOf(minimumBond, bondDetails.currentUserBondAllowance)
  IN IF ~IsDefined(txs)
     THEN [ oracle |-> OracleAddress,
            minimumBond |-> minimumBond,
            allowance |-> bondDetails.currentUserBondAllowance,
            userBalance |-> bondDetails.currentUserBalance,
            needsBondApproval |-> needsApproval,
            noTransactions |-> TRUE,
            activeProposal |-> FALSE,
            proposalEvent |-> Some(EmptyObject),
            proposalExecuted |-> FALSE ]
     ELSE
       LET proposalHash == proposalHashOf(txs[1])
           ancillaryData == ancillaryDataOf(proposalHash)
           proposalHashTimestamp == proposalHashes[proposalHash]
           activeProposal == proposalHashTimestamp > 0
           thisModuleProposalEvent ==
             SelectSeq(oracleEvents,
                       LAMBDA e : MatchesProposal(e, ancillaryData,
                                                  proposalHashTimestamp))
           thisModuleFullProposalEvent ==
             [i \in 1..Len(thisModuleProposalEvent) |->
                FullProposalEvent(thisModuleProposalEvent[i], request,
                                  proposalHash)]
       IN [ oracle |-> OracleAddress,
            minimumBond |-> minimumBond,
            allowance |-> bondDetails.currentUserBondAllowance,
            userBalance |-> bondDetails.currentUserBalance,
            needsBondApproval |-> needsApproval,
            noTransactions |-> FALSE,
            activeProposal |-> activeProposal,
            proposalEvent |-> FirstOrUndefined(thisModuleFullProposalEvent),
            proposalExecuted |-> proposalExecutedOf(explanation, proposalHash) ]

\* callsOf without the early return of the branch without transactions
callsOf_NoEarlyReturn(acct, txs) ==
  {"multicall", "collateral", "symbol", "decimals"}
    \cup (IF IsDefined(acct) THEN {"allowance", "balanceOf"} ELSE {})
    \cup {"proposalHashes", "ProposePrice", "TransactionsProposed",
          "ProposalExecuted"}

\* The chain calls one call of getModuleDetailsUma issues: the multicall and
\* the bond read first; with transactions, the proposalHashes reads, the
\* three event queries and one getRequest per matching oracle event.
callsOf(acct, txs) ==
  {"multicall", "collateral", "symbol", "decimals"}
    \cup (IF IsDefined(acct) THEN {"allowance", "balanceOf"} ELSE {})
    \cup (IF ~IsDefined(txs) \/ encodeThrows(txs) THEN {}
          ELSE {"proposalHashes", "ProposePrice", "TransactionsProposed",
                "ProposalExecuted"}
                 \cup {"getRequest" : i \in
                         {j \in 1..Len(oracleEvents) :
                            MatchesProposal(oracleEvents[j],
                              ancillaryDataOf(proposalHashOf(txs[1])),
                              proposalHashes[proposalHashOf(txs[1])])}})

----------------------------------------------------------------------------
(* The proposal state machine: questionState and the action buttons.       *)

\* questionState with AwaitingProposal as the state of an event that no
\* branch covers
questionState_FallbackAwaits ==
  IF ~IsDefined(account) THEN "noWalletConnection"
  ELSE IF loading THEN "loading"
  ELSE IF ~IsDefined(questionDetails) THEN "error"
  ELSE LET proposalEvent == questionDetails[1].proposalEvent
       IN IF ~IsDefined(proposalEvent) THEN "waitingForProposal"
          ELSE LET pe == proposalEvent[1]
               IN IF Truthy(pe.isExpired) /\ ~Truthy(pe.isSettled)
                    THEN "proposalApproved"
                  ELSE IF Truthy(pe.isSettled) /\ ~Truthy(pe.isDisputed)
                    THEN "proposalApproved"
                  ELSE IF Truthy(pe.isSettled)
                    THEN "completelyExecuted"
                  ELSE IF Truthy(pe.isDisputed)
                          /\ ~TruthyObject(pe.resolvedPrice)
                    THEN "waitingForProposal"
                  ELSE IF Truthy(pe.isDisputed)
                          /\ LooseEqualsZero(pe.resolvedPrice)
                    THEN "proposalRejected"
                  ELSE "waitingForProposal"

questionState ==
  IF ~IsDefined(account) THEN "noWalletConnection"
  ELSE IF loading THEN "loading"
  ELSE IF ~IsDefined(questionDetails) THEN "error"
  ELSE LET proposalEvent == questionDetails[1].proposalEvent
       IN IF ~IsDefined(proposalEvent) THEN "waitingForProposal"
          ELSE LET pe == proposalEvent[1]
               IN IF Truthy(pe.isExpired) /\ ~Truthy(pe.isSettled)
                    THEN "proposalApproved"
                  ELSE IF Truthy(pe.isSettled) /\ ~Truthy(pe.isDisputed)
                    THEN "proposalApproved"
                  ELSE IF Truthy(pe.isSettled)
                    THEN "completelyExecuted"
                  ELSE IF Truthy(pe.isDisputed)
                          /\ ~TruthyObject(pe.resolvedPrice)
                    THEN "waitingForProposal"
                  ELSE IF Truthy(pe.isDisputed)
                          /\ LooseEqualsZero(pe.resolvedPrice)
                    THEN "proposalRejected"
                  ELSE "error"

connectedToRightChain == walletChain = "right"
usingMetaMask == canSwitch

\* approveBondShown without the test of needsBondApproval
approveBondShown_IgnoresBond ==
  /\ connectedToRightChain \/ usingMetaMask
  /\ questionState = "waitingForProposal"

approveBondShown ==
  /\ connectedToRightChain \/ usingMetaMask
  /\ questionState = "waitingForProposal"
  /\ questionDetails[1].needsBondApproval = TRUE

submitProposalShown ==
  /\ connectedToRightChain \/ usingMetaMask
  /\ questionState = "waitingForProposal"
  /\ questionDetails[1].needsBondApproval = FALSE

executeProposalShown ==
  /\ connectedToRightChain \/ usingMetaMask
  /\ questionState = "proposalApproved"

\* the actions whose button the template renders
EnabledActions ==
  {a \in {"approveBond"} : approveBondShown}
    \cup {a \in {"submitProposal"} : submitProposalShown}
    \cup {a \in {"executeProposal"} : executeProposalShown}

----------------------------------------------------------------------------
(* Value sets.                                                             *)

\* batches of a proposal; Batch2 carries a second transaction in its batch
Batch0 == << >>
Batch1 == << [transactions |-> <<TxA>>] >>
Batch2 == << [transactions |-> <<TxA, TxB>>] >>
SampleBatches == {Batch0, Batch1, Batch2}

CallLists == {getTransactions(b) : b \in SampleBatches}
HashUniverse == {proposalHashOf(txs) : txs \in CallLists}

SeqsUpTo(S, n) == UNION {[1..k -> S] : k \in 0..n}

ProposePriceEvents ==
  { [ancillaryData |-> ancillaryDataOf(h), timestamp |-> t,
     expirationTimestamp |-> t + Liveness] : h \in HashUniverse, t \in 1..MaxStamp }

Requests ==
  [disputer : {ZeroAddress, "0xDisputer"}, settled : BOOLEAN,
   resolvedPrice : Opt({0, 1})]

TransactionsProposedEvents ==
  [explanation : {toUtf8Bytes(ProposalId), toUtf8Bytes("F")},
   proposalTime : 1..MaxStamp]

ProposalExecutedEvents == [proposalHash : HashUniverse, proposalTime : 1..MaxStamp]

\* proposalHashes with at most one hash proposed
ProposalHashMaps ==
  { [h \in HashUniverse |-> IF h = k THEN t ELSE 0] :
      k \in HashUniverse, t \in 0..MaxStamp }

Accounts == {"0xUser"}

----------------------------------------------------------------------------
(* Direct calls of getModuleDetailsUma: the chain answers are drawn from   *)
(* the value sets above, the function is called once and the view state is *)
(* derived from the status it returns.                                     *)

\* no bond read is in flight
IdleBondRead ==
  [pc |-> "idle", startedFor |-> Undefined, allowanceFor |-> Undefined,
   balanceFor |-> Undefined]

ViewInit ==
  /\ batches = Batch1
  /\ loading = TRUE
  /\ questionDetails = Undefined
  /\ actionInProgress = "false"
  /\ action2InProgress = "false"
  /\ pendingCount = 0
  /\ handlers = << >>
  /\ updates = {}
  /\ started = 0
  /\ applied = 0
  /\ bondRead = IdleBondRead
  /\ abiCache = [key \in {} |-> 0]
  /\ httpFetches = << >>
  /\ abiCalls = << >>

InitDetails ==
  /\ now \in 1..MaxTime
  /\ bondAmount \in 0..MaxAmount
  /\ allowance \in 0..MaxAmount
  /\ balance = MaxAmount
  /\ proposalHashes \in ProposalHashMaps
  /\ oracleEvents \in SeqsUpTo(ProposePriceEvents, MaxEvents)
  /\ request \in Requests
  /\ proposedEvents \in SeqsUpTo(TransactionsProposedEvents, MaxEvents)
  /\ executedEvents \in SeqsUpTo(ProposalExecutedEvents, MaxEvents)
  /\ account \in Opt(Accounts)
  /\ walletChain = "right"
  /\ canSwitch = TRUE
  /\ transactions \in Opt(CallLists)
  /\ calls = {}
  /\ ViewInit

\* questionDetails = await getModuleDetailsUma(...); loading = false. A call
\* that throws assigns nothing.
DirectCall ==
  /\ loading
  /\ IF encodeThrows(transactions)
       THEN UNCHANGED questionDetails
       ELSE questionDetails' =
              Some(getModuleDetailsUma(account, ProposalId, transactions))
  /\ calls' = calls \cup callsOf(account, transactions)
  /\ loading' = FALSE
  /\ UNCHANGED <<chainVars, walletVars, transactions, bondRead, abiVars, batches, actionInProgress,
                 action2InProgress, pendingCount, handlers, updates, started,
                 applied>>

NextDetails == DirectCall

SpecDetails == InitDetails /\ [][NextDetails]_vars

\* Direct calls over event histories: the three event logs hold up to MaxLog
\* events in any order; bond, clock and wallet are fixed.
InitEvents ==
  /\ now = MaxTime
  /\ bondAmount = MaxAmount
  /\ allowance = 0
  /\ balance = MaxAmount
  /\ proposalHashes \in ProposalHashMaps
  /\ oracleEvents \in SeqsUpTo(ProposePriceEvents, MaxLog)
  /\ request = [disputer |-> ZeroAddress, settled |-> FALSE,
                resolvedPrice |-> Some(0)]
  /\ proposedEvents \in SeqsUpTo(TransactionsProposedEvents, MaxLog)
  /\ executedEvents \in SeqsUpTo(ProposalExecutedEvents, MaxLog)
  /\ account = Some("0xUser")
  /\ walletChain = "right"
  /\ canSwitch = TRUE
  /\ transactions \in Opt(CallLists)
  /\ calls = {}
  /\ ViewInit

SpecEvents == InitEvents /\ [][NextDetails]_vars

\* Direct calls over bond reads: bond amount and allowance run over
\* 0..MaxBond, beyond the integers that Number represents exactly; the
\* module holds no proposal.
InitBond ==
  /\ now = 1
  /\ bondAmount \in 0..MaxBond
  /\ allowance \in 0..MaxBond
  /\ balance = MaxBond
  /\ proposalHashes = [h \in HashUniverse |-> 0]
  /\ oracleEvents = << >>
  /\ request = [disputer |-> ZeroAddress, settled |-> FALSE,
                resolvedPrice |-> Some(0)]
  /\ proposedEvents = << >>
  /\ executedEvents = << >>
  /\ account \in Opt(Accounts)
  /\ walletChain = "right"
  /\ canSwitch = TRUE
  /\ transactions \in Opt(CallLists)
  /\ calls = {}
  /\ ViewInit

SpecBond == InitBond /\ [][NextDetails]_vars

\* Direct calls over batches of which one has a destination that is not an
\* address.
MalformedBatch == << [transactions |-> << Transaction("0xZZ") >>] >>

InitMalformed ==
  /\ now \in 1..MaxTime
  /\ bondAmount \in 0..MaxAmount
  /\ allowance \in 0..MaxAmount
  /\ balance = MaxAmount
  /\ proposalHashes \in ProposalHashMaps
  /\ oracleEvents = << >>
  /\ request = [disputer |-> ZeroAddress, settled |-> FALSE,
                resolvedPrice |-> Some(0)]
  /\ proposedEvents = << >>
  /\ executedEvents = << >>
  /\ account \in Opt(Accounts)
  /\ walletChain = "right"
  /\ canSwitch = TRUE
  /\ transactions \in Opt(CallLists \cup {getTransactions(MalformedBatch)})
  /\ calls = {}
  /\ ViewInit

SpecMalformed == InitMalformed /\ [][NextDetails]_vars

----------------------------------------------------------------------------
(* The component: updateDetails.                                           *)

\* plugin.getExecutionDetails(network, umaAddress, proposalId, transactions)
getExecutionDetails(acct, proposalId, txs) ==
  getModuleDetailsUma(acct, proposalId, Some(txs))

Update(n, owner) == [n |-> n, owner |-> owner, result |-> Undefined]

\* updateDetails() up to its await: loading = true, then the call. A throw of
\* getTransactions() is caught at once and finally sets loading = false.
UpdateDetailsStart(owner) ==
  /\ started' = started + 1
  /\ IF getTransactionsThrows(batches)
       THEN /\ loading' = FALSE
            /\ updates' = updates
       ELSE /\ loading' = TRUE
            /\ updates' = updates \cup {Update(started + 1, owner)}

\* what the handler `owner` (0: onMounted) does once its updateDetails()
\* returned: approveBond and executeProposal are done, submitProposal runs
\* its finally block
ResumeAfterUpdate(owner) ==
  IF owner = 0
    THEN UNCHANGED <<handlers, actionInProgress>>
    ELSE /\ handlers' = [handlers EXCEPT ![owner].pc = "done"]
         /\ actionInProgress' =
              IF handlers[owner].kind = "submitProposal" THEN "null"
              ELSE actionInProgress

\* onMounted: the first updateDetails()
Mounted ==
  /\ started = 0
  /\ UpdateDetailsStart(0)
  /\ UNCHANGED <<chainVars, walletVars, directVars, batches, questionDetails,
                 actionInProgress, action2InProgress, pendingCount, handlers,
                 applied>>

\* the reads of getModuleDetailsUma are answered, all from the chain as it
\* is at one instant between the start and the end of the call
UpdateRead(u) ==
  /\ u \in updates
  /\ u.result = Undefined
  /\ updates' = (updates \ {u}) \cup
       {[u EXCEPT !.result =
           Some(getExecutionDetails(account, ProposalId, getTransactions(batches)))]}
  /\ calls' = calls \cup callsOf(account, Some(getTransactions(batches)))
  /\ UNCHANGED <<chainVars, walletVars, transactions, bondRead, abiVars, batches, loading,
                 questionDetails, actionInProgress, action2InProgress,
                 pendingCount, handlers, started, applied>>

\* the awaited call returns: questionDetails = result; finally loading = false
UpdateResolved(u) ==
  /\ u \in updates
  /\ u.result # Undefined
  /\ questionDetails' = u.result
  /\ applied' = u.n
  /\ loading' = FALSE
  /\ updates' = updates \ {u}
  /\ ResumeAfterUpdate(u.owner)
  /\ UNCHANGED <<chainVars, walletVars, directVars, batches,
                 action2InProgress, pendingCount, started>>

\* the awaited call throws (a failed read): catch logs; finally loading = false
UpdateRejected(u) ==
  /\ u \in updates
  /\ loading' = FALSE
  /\ updates' = updates \ {u}
  /\ ResumeAfterUpdate(u.owner)
  /\ UNCHANGED <<chainVars, walletVars, directVars, batches, questionDetails,
                 applied, action2InProgress, pendingCount, started>>

----------------------------------------------------------------------------
(* The component: the action handlers.                                     *)

\* ensureRightNetwork without its first two tests: it returns at once
EnsureRightNetworkEntry_NoCheck == "ok"

\* ensureRightNetwork() up to its first await: "ok" (already on the right
\* chain), "throw" (cannot switch automatically) or "switching"
EnsureRightNetworkEntry ==
  IF walletChain = "right" THEN "ok"
  ELSE IF ~canSwitch THEN "throw"
  ELSE "switching"

PcAfterEntry(entry) ==
  CASE entry = "ok" -> "phase1"
    [] entry = "throw" -> "done"
    [] entry = "switching" -> "switching"

\* the refs of the driver and the pending counter as a step leaves them
LeftState ==
  [actionInProgress |-> actionInProgress',
   action2InProgress |-> action2InProgress',
   pendingCount |-> pendingCount']

\* A running handler: its kind and where it stands. The other fields record
\* its history: whether phase 2 succeeded, the step that failed ("" if none),
\* the number of updateDetails() calls it made, the chain the wallet was on
\* when the handler was called, whether its transaction was broadcast, and
\* what a failure left in the driver (undefined while none occurred).
Handler(kind, entry) ==
  [kind |-> kind, pc |-> PcAfterEntry(entry), confirmed |-> FALSE,
   failed |-> IF entry = "throw" THEN "network" ELSE "",
   updatesStarted |-> 0,
   chainAtEntry |-> walletChain,
   broadcast |-> FALSE,
   endState |-> IF entry = "throw" THEN Some(LeftState) ELSE Undefined]

\* BaseButton is disabled while its loading property is set
approveBondClickable == approveBondShown /\ actionInProgress # "approve-bond"
submitProposalClickable == submitProposalShown /\ actionInProgress # "submit-proposal"
executeProposalClickable == executeProposalShown /\ action2InProgress # "execute-proposal"

\* approveBond() called: reading .oracle of an undefined questionDetails
\* throws before the try block, and the call changes nothing
CallApproveBond ==
  /\ Len(handlers) < MaxClicks
  /\ IsDefined(questionDetails)
  /\ questionDetails[1].oracle # ""
  /\ UNCHANGED <<chainVars, walletVars, directVars, batches, loading,
                 questionDetails, action2InProgress, pendingCount, updates,
                 started, applied>>
  /\ LET entry == EnsureRightNetworkEntry
     IN /\ actionInProgress' = IF entry = "throw" THEN "null" ELSE "approve-bond"
        /\ handlers' = Append(handlers, Handler("approveBond", entry))

CallSubmitProposal ==
  /\ Len(handlers) < MaxClicks
  /\ IsDefined(account)
  /\ UNCHANGED <<chainVars, walletVars, directVars, batches, loading,
                 questionDetails, action2InProgress, pendingCount, updates,
                 started, applied>>
  /\ LET entry == EnsureRightNetworkEntry
     IN /\ actionInProgress' = IF entry = "throw" THEN "null" ELSE "submit-proposal"
        /\ handlers' = Append(handlers, Handler("submitProposal", entry))

CallExecuteProposal ==
  /\ Len(handlers) < MaxClicks
  /\ IsDefined(account)
  /\ UNCHANGED <<chainVars, walletVars, directVars, batches, loading,
                 questionDetails, actionInProgress, pendingCount, updates,
                 started, applied>>
  /\ LET entry == EnsureRightNetworkEntry
     IN /\ action2InProgress' = IF entry = "throw" THEN "null" ELSE "execute-proposal"
        /\ handlers' = Append(handlers, Handler("executeProposal", entry))

\* the buttons of the template call the handlers
ClickApproveBond == approveBondClickable /\ CallApproveBond
ClickSubmitProposal == submitProposalClickable /\ CallSubmitProposal
ClickExecuteProposal == executeProposalClickable /\ CallExecuteProposal

\* the catch and finally blocks: the in-progress marker of the handler's kind
\* is cleared
ClearInProgress(kind) ==
  IF kind = "executeProposal"
    THEN /\ action2InProgress' = "null"
         /\ UNCHANGED actionInProgress
    ELSE /\ actionInProgress' = "null"
         /\ UNCHANGED action2InProgress

\* pendingCount in the catch block: only executeProposal decrements it
PendingAfterFailure(kind) ==
  IF kind = "executeProposal" THEN pendingCount - 1 ELSE pendingCount

\* NetworkSwitched without the comparison after the sleep: the handler goes
\* on to phase 1 whatever chain the wallet is on
NetworkSwitched_NoRecheck(h, chain) ==
  /\ h \in 1..Len(handlers)
  /\ handlers[h].pc = "switching"
  /\ walletChain' = chain
  /\ UNCHANGED <<chainVars, account, canSwitch, directVars, batches, loading,
                 questionDetails, pendingCount, updates, started, applied,
                 actionInProgress, action2InProgress>>
  /\ handlers' = [handlers EXCEPT ![h].pc = "phase1"]

\* the switch request and the sleep are over: window.ethereum.chainId is
\* compared with the required chain
NetworkSwitched(h, chain) ==
  /\ h \in 1..Len(handlers)
  /\ handlers[h].pc = "switching"
  /\ walletChain' = chain
  /\ UNCHANGED <<chainVars, account, canSwitch, directVars, batches, loading,
                 questionDetails, pendingCount, updates, started, applied>>
  /\ IF chain = "right"
       THEN /\ handlers' = [handlers EXCEPT ![h].pc = "phase1"]
            /\ UNCHANGED <<actionInProgress, action2InProgress>>
       ELSE /\ ClearInProgress(handlers[h].kind)
            /\ handlers' = [handlers EXCEPT ![h].pc = "done",
                                            ![h].failed = "network",
                                            ![h].endState = Some(LeftState)]

\* Phase1Ok without the assignment of null to the in-progress ref
Phase1Ok_KeepsIndicator(h) ==
  /\ h \in 1..Len(handlers)
  /\ handlers[h].pc = "phase1"
  /\ handlers' = [handlers EXCEPT ![h].pc = "phase2", ![h].broadcast = TRUE]
  /\ pendingCount' = pendingCount + 1
  /\ UNCHANGED <<chainVars, walletVars, directVars, batches, loading,
                 questionDetails, updates, started, applied,
                 actionInProgress, action2InProgress>>

\* phase 1: the transaction is broadcast
Phase1Ok(h) ==
  /\ h \in 1..Len(handlers)
  /\ handlers[h].pc = "phase1"
  /\ handlers' = [handlers EXCEPT ![h].pc = "phase2", ![h].broadcast = TRUE]
  /\ ClearInProgress(handlers[h].kind)
  /\ pendingCount' = pendingCount + 1
  /\ UNCHANGED <<chainVars, walletVars, directVars, batches, loading,
                 questionDetails, updates, started, applied>>

\* Phase1Failed with a catch block that also drops the reconciled status
Phase1Failed_DropsStatus(h) ==
  /\ h \in 1..Len(handlers)
  /\ handlers[h].pc = "phase1"
  /\ ClearInProgress(handlers[h].kind)
  /\ pendingCount' = PendingAfterFailure(handlers[h].kind)
  /\ handlers' = [handlers EXCEPT ![h].pc = "done", ![h].failed = "phase1",
                                  ![h].endState = Some(LeftState)]
  /\ questionDetails' = Undefined
  /\ UNCHANGED <<chainVars, walletVars, directVars, batches, loading,
                 updates, started, applied>>

\* phase 1 throws: the wallet rejected the transaction or it was not sent
Phase1Failed(h) ==
  /\ h \in 1..Len(handlers)
  /\ handlers[h].pc = "phase1"
  /\ ClearInProgress(handlers[h].kind)
  /\ pendingCount' = PendingAfterFailure(handlers[h].kind)
  /\ handlers' = [handlers EXCEPT ![h].pc = "done", ![h].failed = "phase1",
                                  ![h].endState = Some(LeftState)]
  /\ UNCHANGED <<chainVars, walletVars, directVars, batches, loading,
                 questionDetails, updates, started, applied>>

\* ---- the chain, as the transactions of the handlers change it ----

ThisHash == proposalHashOf(getTransactions(batches))
ThisExpiration == proposalHashes[ThisHash] + Liveness
ThisExecuted ==
  \E i \in 1..Len(executedEvents) : executedEvents[i].proposalHash = ThisHash

NewRequest == [disputer |-> ZeroAddress, settled |-> FALSE, resolvedPrice |-> Some(0)]

\* whether the module accepts the transaction of an action
TxAccepted(kind) ==
  CASE kind = "approveBond" -> TRUE
    [] kind = "submitProposal" -> proposalHashes[ThisHash] = 0
    [] kind = "executeProposal" ->
         /\ proposalHashes[ThisHash] > 0
         /\ request.disputer = ZeroAddress
         /\ now >= ThisExpiration \/ request.settled
         /\ ~ThisExecuted

\* erc20.approve(module, bondAmount)
ApproveEffect ==
  /\ allowance' = bondAmount
  /\ UNCHANGED <<now, bondAmount, balance, proposalHashes, oracleEvents,
                 request, proposedEvents, executedEvents>>

\* module.proposeTransactions(transactions, explanation)
ProposeEffect ==
  /\ proposalHashes' = [proposalHashes EXCEPT ![ThisHash] = now]
  /\ oracleEvents' = Append(oracleEvents,
       [ancillaryData |-> ancillaryDataOf(ThisHash), timestamp |-> now,
        expirationTimestamp |-> now + Liveness])
  /\ request' = NewRequest
  /\ proposedEvents' = Append(proposedEvents,
       [explanation |-> toUtf8Bytes(ProposalId), proposalTime |-> now])
  /\ UNCHANGED <<now, bondAmount, allowance, balance, executedEvents>>

\* module.executeProposal(transactions): settles the request and executes
ExecuteEffect ==
  /\ request' = [request EXCEPT !.settled = TRUE, !.resolvedPrice = Some(1)]
  /\ executedEvents' = Append(executedEvents,
       [proposalHash |-> ThisHash, proposalTime |-> proposalHashes[ThisHash]])
  /\ UNCHANGED <<now, bondAmount, allowance, balance, proposalHashes,
                 oracleEvents, proposedEvents>>

TxEffect(kind) ==
  CASE kind = "approveBond" -> ApproveEffect
    [] kind = "submitProposal" -> ProposeEffect
    [] kind = "executeProposal" -> ExecuteEffect

\* phase 2: the transaction is confirmed; notify; pendingCount--; sleep(3e3)
Phase2Ok(h) ==
  /\ h \in 1..Len(handlers)
  /\ handlers[h].pc = "phase2"
  /\ TxAccepted(handlers[h].kind)
  /\ TxEffect(handlers[h].kind)
  /\ handlers' = [handlers EXCEPT ![h].pc = "sleep", ![h].confirmed = TRUE]
  /\ pendingCount' = pendingCount - 1
  /\ UNCHANGED <<walletVars, directVars, batches, loading, questionDetails,
                 actionInProgress, action2InProgress, updates, started, applied>>

\* Phase2Failed with updateDetails() moved into a finally block: the handler
\* goes on to the sleep and the reconciliation after the failure
Phase2Failed_ThenUpdates(h) ==
  /\ h \in 1..Len(handlers)
  /\ handlers[h].pc = "phase2"
  /\ handlers' = [handlers EXCEPT ![h].pc = "sleep", ![h].failed = "phase2"]
  /\ ClearInProgress(handlers[h].kind)
  /\ pendingCount' = PendingAfterFailure(handlers[h].kind)
  /\ UNCHANGED <<chainVars, walletVars, directVars, batches, loading,
                 questionDetails, updates, started, applied>>

\* phase 2 throws: the transaction was dropped or reverted
Phase2Failed(h) ==
  /\ h \in 1..Len(handlers)
  /\ handlers[h].pc = "phase2"
  /\ ClearInProgress(handlers[h].kind)
  /\ pendingCount' = PendingAfterFailure(handlers[h].kind)
  /\ handlers' = [handlers EXCEPT ![h].pc = "done", ![h].failed = "phase2",
                                  ![h].endState = Some(LeftState)]
  /\ UNCHANGED <<chainVars, walletVars, directVars, batches, loading,
                 questionDetails, updates, started, applied>>

\* the sleep is over: await updateDetails()
SleepDone(h) ==
  /\ h \in 1..Len(handlers)
  /\ handlers[h].pc = "sleep"
  /\ UpdateDetailsStart(h)
  /\ IF getTransactionsThrows(batches)
       THEN /\ handlers' = [handlers EXCEPT ![h].pc = "done",
                                            ![h].updatesStarted = @ + 1]
            /\ actionInProgress' =
                 IF handlers[h].kind = "submitProposal" THEN "null"
                 ELSE actionInProgress
       ELSE /\ handlers' = [handlers EXCEPT ![h].pc = "updating",
                                            ![h].updatesStarted = @ + 1]
            /\ UNCHANGED actionInProgress
  /\ UNCHANGED <<chainVars, walletVars, directVars, batches, questionDetails,
                 action2InProgress, pendingCount, applied>>

----------------------------------------------------------------------------
(* The chain, as time and other parties change it.                         *)

Tick ==
  /\ now < MaxTime
  /\ now' = now + 1
  /\ UNCHANGED <<bondAmount, allowance, balance, proposalHashes, oracleEvents,
                 request, proposedEvents, executedEvents, walletVars, viewVars,
                 directVars>>

\* oracle.disputePrice inside the dispute window
Dispute ==
  /\ proposalHashes[ThisHash] > 0
  /\ request.disputer = ZeroAddress
  /\ ~request.settled
  /\ now < ThisExpiration
  /\ request' = [request EXCEPT !.disputer = "0xDisputer"]
  /\ UNCHANGED <<now, bondAmount, allowance, balance, proposalHashes,
                 oracleEvents, proposedEvents, executedEvents, walletVars,
                 viewVars, directVars>>

\* oracle.settle: an undisputed request settles to the proposed price once
\* its window is over, a disputed one to the price the vote resolved
Settle(price) ==
  /\ proposalHashes[ThisHash] > 0
  /\ ~request.settled
  /\ IF request.disputer = ZeroAddress
       THEN now >= ThisExpiration /\ price = 1
       ELSE TRUE
  /\ request' = [request EXCEPT !.settled = TRUE, !.resolvedPrice = Some(price)]
  /\ UNCHANGED <<now, bondAmount, allowance, balance, proposalHashes,
                 oracleEvents, proposedEvents, executedEvents, walletVars,
                 viewVars, directVars>>

----------------------------------------------------------------------------
(* The component on a chain that starts without a proposal.                *)

Init ==
  /\ now = 1
  /\ bondAmount \in 0..MaxAmount
  /\ allowance = 0
  /\ balance = MaxAmount
  /\ proposalHashes = [h \in HashUniverse |-> 0]
  /\ oracleEvents = << >>
  /\ request = NewRequest
  /\ proposedEvents = << >>
  /\ executedEvents = << >>
  /\ account \in Opt(Accounts)
  /\ walletChain \in {"right", "wrong"}
  /\ canSwitch \in BOOLEAN
  /\ transactions = Undefined
  /\ calls = {}
  /\ ViewInit

Next ==
  \/ Mounted
  \/ \E u \in updates : UpdateRead(u)
  \/ \E u \in updates : UpdateResolved(u)
  \/ \E u \in updates : UpdateRejected(u)
  \/ ClickApproveBond
  \/ ClickSubmitProposal
  \/ ClickExecuteProposal
  \/ \E h \in 1..Len(handlers), chain \in {"right", "wrong"} : NetworkSwitched(h, chain)
  \/ \E h \in 1..Len(handlers) : Phase1Ok(h)
  \/ \E h \in 1..Len(handlers) : Phase1Failed(h)
  \/ \E h \in 1..Len(handlers) : Phase2Ok(h)
  \/ \E h \in 1..Len(handlers) : Phase2Failed(h)
  \/ \E h \in 1..Len(handlers) : SleepDone(h)
  \/ Tick
  \/ Dispute
  \/ \E price \in {0, 1} : Settle(price)

Spec == Init /\ [][Next]_vars

\* Every awaited call of a handler eventually resolves or rejects, and so
\* does every reconciliation.
HandlerStep ==
  \E h \in 1..Len(handlers) :
    \/ \E chain \in {"right", "wrong"} : NetworkSwitched(h, chain)
    \/ Phase1Ok(h)
    \/ Phase1Failed(h)
    \/ Phase2Ok(h)
    \/ Phase2Failed(h)
    \/ SleepDone(h)

UpdateStep ==
  \E u \in updates : UpdateRead(u) \/ UpdateResolved(u) \/ UpdateRejected(u)

SpecLive ==
  Init /\ [][Next]_vars /\ WF_vars(HandlerStep) /\ WF_vars(UpdateStep)

----------------------------------------------------------------------------
(* The action driver: the handlers called directly, in any state of the    *)
(* view and of the wallet, as a caller of the component's methods can. No  *)
(* other party acts on the oracle request.                                 *)

NextDriver ==
  \/ Mounted
  \/ \E u \in updates : UpdateRead(u)
  \/ \E u \in updates : UpdateResolved(u)
  \/ \E u \in updates : UpdateRejected(u)
  \/ CallApproveBond
  \/ CallSubmitProposal
  \/ CallExecuteProposal
  \/ \E h \in 1..Len(handlers), chain \in {"right", "wrong"} : NetworkSwitched(h, chain)
  \/ \E h \in 1..Len(handlers) : Phase1Ok(h)
  \/ \E h \in 1..Len(handlers) : Phase1Failed(h)
  \/ \E h \in 1..Len(handlers) : Phase2Ok(h)
  \/ \E h \in 1..Len(handlers) : Phase2Failed(h)
  \/ \E h \in 1..Len(handlers) : SleepDone(h)
  \/ Tick

SpecDriver == Init /\ [][NextDriver]_vars

----------------------------------------------------------------------------
(* Successive reconciliations of one proposal: the page is loaded again    *)
(* while any account proposes and executes the batch on the module, time   *)
(* passes and the oracle request is disputed and settled.                  *)

\* a page load: onMounted runs updateDetails() and the call returns
Reload ==
  /\ questionDetails' =
       Some(getExecutionDetails(account, ProposalId, getTransactions(batches)))
  /\ calls' = calls \cup callsOf(account, Some(getTransactions(batches)))
  /\ loading' = FALSE
  /\ UNCHANGED <<chainVars, walletVars, transactions, bondRead, abiVars, batches, actionInProgress,
                 action2InProgress, pendingCount, handlers, updates, started,
                 applied>>

\* some account's proposeTransactions for this batch is confirmed
Proposed ==
  /\ TxAccepted("submitProposal")
  /\ ProposeEffect
  /\ UNCHANGED <<walletVars, viewVars, directVars>>

\* some account's executeProposal for this batch is confirmed
Executed ==
  /\ TxAccepted("executeProposal")
  /\ ExecuteEffect
  /\ UNCHANGED <<walletVars, viewVars, directVars>>

InitReload ==
  /\ now = 1
  /\ bondAmount \in 0..MaxAmount
  /\ allowance \in 0..MaxAmount
  /\ balance = MaxAmount
  /\ proposalHashes = [h \in HashUniverse |-> 0]
  /\ oracleEvents = << >>
  /\ request = NewRequest
  /\ proposedEvents = << >>
  /\ executedEvents = << >>
  /\ account = Some("0xUser")
  /\ walletChain = "right"
  /\ canSwitch = TRUE
  /\ transactions = Undefined
  /\ calls = {}
  /\ ViewInit

NextReload ==
  \/ Reload
  \/ Proposed
  \/ Executed
  \/ Tick
  \/ Dispute
  \/ \E price \in {0, 1} : Settle(price)

SpecReload == InitReload /\ [][NextReload]_vars

----------------------------------------------------------------------------
(* The bond read of one reconciliation, await by await, while the wallet   *)
(* changes its account. web3Account is a ref: each read of .value gives    *)
(* the account connected at that moment.                                   *)

OtherAccount == "0xOther"

\* the wallet connects, disconnects or changes its account
AccountChanged(acct) ==
  /\ acct # account
  /\ account' = acct
  /\ UNCHANGED <<chainVars, walletChain, canSwitch, viewVars, transactions,
                 calls, bondRead, abiVars>>

\* getModuleDetailsUma is called: the multicall, then getBondDetails up to
\* the end of its awaits of collateral(), symbol() and decimals()
BondReadStarted ==
  /\ bondRead.pc \in {"idle", "done"}
  /\ bondRead' = [pc |-> "allowance", startedFor |-> account,
                  allowanceFor |-> Undefined, balanceFor |-> Undefined]
  /\ calls' = calls \cup {"multicall", "collateral", "symbol", "decimals"}
  /\ UNCHANGED <<chainVars, walletVars, viewVars, transactions, abiVars>>

\* web3Account.value ? await erc20Contract.allowance(web3Account.value, ...) : 0
BondReadAllowance ==
  /\ bondRead.pc = "allowance"
  /\ bondRead' = [bondRead EXCEPT !.pc = "balance", !.allowanceFor = account]
  /\ calls' = calls \cup (IF IsDefined(account) THEN {"allowance"} ELSE {})
  /\ UNCHANGED <<chainVars, walletVars, viewVars, transactions, abiVars>>

\* web3Account.value ? await erc20Contract.balanceOf(web3Account.value) : 0
BondReadBalance ==
  /\ bondRead.pc = "balance"
  /\ bondRead' = [bondRead EXCEPT !.pc = "done", !.balanceFor = account]
  /\ calls' = calls \cup (IF IsDefined(account) THEN {"balanceOf"} ELSE {})
  /\ UNCHANGED <<chainVars, walletVars, viewVars, transactions, abiVars>>

InitBondRead ==
  /\ now = 1
  /\ bondAmount \in 0..MaxAmount
  /\ allowance \in 0..MaxAmount
  /\ balance \in 0..MaxAmount
  /\ proposalHashes = [h \in HashUniverse |-> 0]
  /\ oracleEvents = << >>
  /\ request = NewRequest
  /\ proposedEvents = << >>
  /\ executedEvents = << >>
  /\ account \in Opt(Accounts \cup {OtherAccount})
  /\ walletChain = "right"
  /\ canSwitch = TRUE
  /\ transactions = Undefined
  /\ calls = {}
  /\ ViewInit

NextBondRead ==
  \/ BondReadStarted
  \/ BondReadAllowance
  \/ BondReadBalance
  \/ \E acct \in Opt(Accounts \cup {OtherAccount}) : AccountChanged(acct)

SpecBondRead == InitBondRead /\ [][NextBondRead]_vars

----------------------------------------------------------------------------
(* The ABI helper: getContractABI over the memoized fetchContractABI.      *)

\* a JavaScript number and a JavaScript string, as `===` tells them apart
JsNumber(n) == [type |-> "number", num |-> n, str |-> ""]
JsString(str) == [type |-> "string", num |-> 0, str |-> str]
StrictEquals(a, b) == a = b

\* the networks a caller can name; "0" has no explorer
Networks == {"1", "5", "0"}

\* EXPLORER_API_URLS[network], undefined for a network without an entry
EXPLORER_API_URLS ==
  [network \in {"1", "5"} |->
     IF network = "1" THEN "https://api.etherscan.io/api"
     ELSE "https://api-goerli.etherscan.io/api"]

apiUrlOf(network) ==
  IF network \in DOMAIN EXPLORER_API_URLS
  THEN Some(EXPLORER_API_URLS[network])
  ELSE Undefined

\* the addresses a caller can pass: two well-formed ones and one that is not
ContractAddresses == {"0xA", "0xB", "zz"}

mustBeEthereumAddress(contractAddress) == IsAddress(contractAddress)

\* what `await mustBeEthereumContractAddress(network, contractAddress)` can
\* come to: a boolean, or a rejection of the promise it awaits
ContractChecks == {"true", "false", "rejected"}

\* a cache keyed by the first argument alone, as memoize does without a
\* resolver
resolver_UrlOnly(url, contractAddress) == url

\* the resolver given to memoize: `${url}_${contractAddress}`
resolver(url, contractAddress) == url \o "_" \o contractAddress

\* the bodies an explorer answers with: an ABI, or an error message
AbiBodies ==
  { [status |-> JsString("1"), result |-> "[abi]"],
    [status |-> JsString("0"), result |-> "Contract source code not verified"] }

\* what one HTTP request can come to: fetch rejects, or resolves to a
\* response that is OK or not, whose body parses as JSON or does not
HttpResponses ==
  { [rejected |-> TRUE, ok |-> FALSE, json |-> Undefined],
    [rejected |-> FALSE, ok |-> FALSE, json |-> Undefined] }
  \cup { [rejected |-> FALSE, ok |-> TRUE, json |-> json] :
           json \in Opt(AbiBodies) }

\* the body of the memoized function, from the response on: how the promise
\* it returned settles
fetchContractABI(response) ==
  IF response.rejected
  THEN [state |-> "rejected", value |-> Undefined]
  ELSE IF ~response.ok
  THEN [state |-> "fulfilled",
        value |-> Some([status |-> JsNumber(0), result |-> ""])]
  ELSE IF IsDefined(response.json)
  THEN [state |-> "fulfilled", value |-> response.json]
  ELSE [state |-> "rejected", value |-> Undefined]

\* getContractABI(network, contractAddress) is called and runs to its first
\* await, or returns '' for a network without an explorer
getContractABI(network, contractAddress) ==
  /\ Len(abiCalls) < MaxAbiCalls
  /\ abiCalls' =
       Append(abiCalls,
              [network |-> network, contractAddress |-> contractAddress,
               pc |-> IF IsDefined(apiUrlOf(network))
                      THEN "contract-check" ELSE "returned",
               promise |-> 0, returned |-> ""])
  /\ UNCHANGED <<chainVars, walletVars, viewVars, transactions, calls,
                 bondRead, abiCache, httpFetches>>

\* the contract check settles: the call throws, returns '', or calls the
\* memoized fetchContractABI, which makes a request only on a cache miss
ContractChecked(i, isEthereumContractAddress) ==
  /\ i \in DOMAIN abiCalls
  /\ abiCalls[i].pc = "contract-check"
  /\ LET call == abiCalls[i]
         apiUrl == apiUrlOf(call.network)[1]
         key == resolver(apiUrl, call.contractAddress)
         cached == key \in DOMAIN abiCache
         promise == IF cached THEN abiCache[key] ELSE Len(httpFetches) + 1
     IN  IF isEthereumContractAddress = "rejected"
         THEN /\ abiCalls' = [abiCalls EXCEPT ![i].pc = "threw"]
              /\ UNCHANGED <<abiCache, httpFetches>>
         ELSE IF \/ ~mustBeEthereumAddress(call.contractAddress)
                 \/ isEthereumContractAddress = "false"
         THEN /\ abiCalls' = [abiCalls EXCEPT ![i].pc = "returned",
                                               ![i].returned = ""]
              /\ UNCHANGED <<abiCache, httpFetches>>
         ELSE /\ abiCalls' = [abiCalls EXCEPT ![i].pc = "awaiting",
                                               ![i].promise = promise]
              /\ abiCache' = IF cached THEN abiCache
                             ELSE abiCache @@ (key :> promise)
              /\ httpFetches' =
                   IF cached THEN httpFetches
                   ELSE Append(httpFetches,
                               [url |-> apiUrl,
                                contractAddress |-> call.contractAddress,
                                state |-> "pending", value |-> Undefined,
                                response |-> Undefined])
  /\ UNCHANGED <<chainVars, walletVars, viewVars, transactions, calls,
                 bondRead>>

\* a request comes back and the promise of the memoized function settles
FetchSettled(f, response) ==
  /\ f \in DOMAIN httpFetches
  /\ httpFetches[f].state = "pending"
  /\ httpFetches' =
       [httpFetches EXCEPT ![f].state = fetchContractABI(response).state,
                           ![f].value = fetchContractABI(response).value,
                           ![f].response = Some(response)]
  /\ UNCHANGED <<chainVars, walletVars, viewVars, transactions, calls,
                 bondRead, abiCache, abiCalls>>

\* getContractABI resumes after `await fetchContractABI(...)`: '' from the
\* catch block or for status '0', the result otherwise
getContractABIResumed(i) ==
  /\ i \in DOMAIN abiCalls
  /\ abiCalls[i].pc = "awaiting"
  /\ httpFetches[abiCalls[i].promise].state # "pending"
  /\ LET settled == httpFetches[abiCalls[i].promise]
     IN  abiCalls' =
           [abiCalls EXCEPT
              ![i].pc = "returned",
              ![i].returned =
                 IF settled.state = "rejected" THEN ""
                 ELSE IF StrictEquals(settled.value[1].status, JsString("0"))
                 THEN ""
                 ELSE settled.value[1].result]
  /\ UNCHANGED <<chainVars, walletVars, viewVars, transactions, calls,
                 bondRead, abiCache, httpFetches>>

InitAbi ==
  /\ now = 1
  /\ bondAmount = 0
  /\ allowance = 0
  /\ balance = 0
  /\ proposalHashes = [h \in HashUniverse |-> 0]
  /\ oracleEvents = << >>
  /\ request = NewRequest
  /\ proposedEvents = << >>
  /\ executedEvents = << >>
  /\ account = Undefined
  /\ walletChain = "right"
  /\ canSwitch = TRUE
  /\ transactions = Undefined
  /\ calls = {}
  /\ ViewInit

NextAbi ==
  \/ \E network \in Networks, contractAddress \in ContractAddresses :
       getContractABI(network, contractAddress)
  \/ \E i \in 1..MaxAbiCalls, isEthereumContractAddress \in ContractChecks :
       ContractChecked(i, isEthereumContractAddress)
  \/ \E f \in 1..MaxAbiCalls, response \in HttpResponses :
       FetchSettled(f, response)
  \/ \E i \in 1..MaxAbiCalls : getContractABIResumed(i)

SpecAbi == InitAbi /\ [][NextAbi]_vars

----------------------------------------------------------------------------
(* Claims.                                                                 *)

\* the matched proposal event of the visible status, where there is one
HasStatus == IsDefined(account) /\ ~loading /\ IsDefined(questionDetails)
HasProposalEvent == HasStatus /\ IsDefined(questionDetails[1].proposalEvent)
Event == questionDetails[1].proposalEvent[1]

\* The state the precedence of C1 gives: wallet, loading, no status, no
\* matched event, expired and undisputed, settled and undisputed, settled,
\* disputed without a resolved price, disputed with a rejecting price,
\* otherwise error.
C1_ClaimedState ==
  IF ~IsDefined(account) THEN "noWalletConnection"
  ELSE IF loading THEN "loading"
  ELSE IF ~IsDefined(questionDetails) THEN "error"
  ELSE IF ~IsDefined(questionDetails[1].proposalEvent) THEN "waitingForProposal"
  ELSE IF Truthy(Event.isExpired) /\ ~Truthy(Event.isDisputed)
    THEN "proposalApproved"
  ELSE IF Truthy(Event.isSettled) /\ ~Truthy(Event.isDisputed)
    THEN "proposalApproved"
  ELSE IF Truthy(Event.isSettled) THEN "completelyExecuted"
  ELSE IF Truthy(Event.isDisputed) /\ ~IsDefined(Event.resolvedPrice)
    THEN "waitingForProposal"
  ELSE IF Truthy(Event.isDisputed) /\ Event.resolvedPrice = Some(0)
    THEN "proposalRejected"
  ELSE "error"

\* C1: questionState is the state of the first condition that applies, in
\* the order wallet, loading, no status, no matched event, expired and
\* undisputed, settled and undisputed, settled, disputed and unresolved,
\* disputed and rejected, error, for every combination of the inputs.
C1_StateFollowsClaimedPrecedence == questionState = C1_ClaimedState

\* C2: whenever the derived state is Approved, the reconciled proposal is
\* undisputed and not executed, and it is past its dispute window or settled.
C2_ApprovedIsUndisputedAndUnexecuted ==
  questionState = "proposalApproved" =>
    /\ ~Truthy(Event.isDisputed)
    /\ ~questionDetails[1].proposalExecuted
    /\ Truthy(Event.isExpired) \/ Truthy(Event.isSettled)

\* C3: for a settled, undisputed status the derived state is Approved when
\* executed is false and Executed when it is true, and the derived state is
\* Executed only for a status with executed = true.
C3_SettledUndisputedFollowsExecuted ==
  /\ (HasProposalEvent /\ Truthy(Event.isSettled) /\ ~Truthy(Event.isDisputed)) =>
       questionState = IF questionDetails[1].proposalExecuted
                         THEN "completelyExecuted" ELSE "proposalApproved"
  /\ questionState = "completelyExecuted" => questionDetails[1].proposalExecuted

\* C4: for a disputed status the derived state is Rejected when resolvedPrice
\* is 0 and AwaitingProposal when resolvedPrice is undefined, whatever
\* isExpired and isSettled are.
C4_DisputedFollowsResolvedPrice ==
  (HasProposalEvent /\ Truthy(Event.isDisputed)) =>
    /\ Event.resolvedPrice = Some(0) => questionState = "proposalRejected"
    /\ Event.resolvedPrice = Undefined => questionState = "waitingForProposal"

\* C6: a call without a batch returns a no-submission status, the state
\* derived from it is AwaitingProposal, and with needsBondApproval only the
\* approve-bond action is enabled.
C6_NoBatchAwaitsProposal ==
  (HasStatus /\ transactions = Undefined) =>
    /\ questionDetails[1].noTransactions
    /\ ~questionDetails[1].activeProposal
    /\ questionState = "waitingForProposal"
    /\ questionDetails[1].needsBondApproval => EnabledActions = {"approveBond"}

\* the batch of the direct call is proposed on the module and the oracle
\* query holds no event that matches it
SubmittedWithoutOracleEvent ==
  /\ IsDefined(transactions)
  /\ proposalHashes[proposalHashOf(transactions[1])] > 0
  /\ \A i \in 1..Len(oracleEvents) :
       ~MatchesProposal(oracleEvents[i],
                        ancillaryDataOf(proposalHashOf(transactions[1])),
                        proposalHashes[proposalHashOf(transactions[1])])

\* C7: when the batch is proposed on the module and no oracle event matches
\* it, the derived state is not AwaitingProposal (the outcome is reported as
\* indeterminate and re-proposal is not offered).
C7_SubmittedWithoutEventIsNotAwaiting ==
  (HasStatus /\ SubmittedWithoutOracleEvent) =>
    /\ questionState # "waitingForProposal"
    /\ "submitProposal" \notin EnabledActions

\* the action the derived state permits
C5_PermittedActions ==
  IF questionState = "waitingForProposal"
    THEN IF questionDetails[1].needsBondApproval
           THEN {"approveBond"} ELSE {"submitProposal"}
  ELSE IF questionState = "proposalApproved" THEN {"executeProposal"}
  ELSE {}

\* C5: in every reachable view state at most one action is enabled: the one
\* the derived state permits (approveBond or submitProposal in
\* AwaitingProposal, by needsBondApproval; executeProposal in Approved) and
\* none in every other state; where the wallet is on the right chain or can
\* switch to it, that action is enabled.
C5_OnlyThePermittedActionEnabled ==
  /\ EnabledActions \subseteq C5_PermittedActions
  /\ Cardinality(EnabledActions) <= 1
  /\ (connectedToRightChain \/ usingMetaMask) => EnabledActions = C5_PermittedActions

C5_Witness ==
  /\ questionState = "waitingForProposal"
  /\ ~questionDetails[1].needsBondApproval
  /\ questionDetails[1].minimumBond > 0
  /\ EnabledActions = {"submitProposal"}

\* C8: after a reconciliation that fails, the derived state is Error once
\* loading has ended (wallet connected), also after earlier successful
\* reconciliations.
C8_FailedUpdateShowsError ==
  [][(\E u \in updates : UpdateRejected(u))
       => ((IsDefined(account') /\ ~loading') => questionState' = "error")]_vars

\* C9: of two overlapping reconciliations only the result of the one started
\* last is applied: the visible status is never replaced by the result of a
\* reconciliation started before the one whose result it holds.
C9_NoEarlierResultApplied == [][applied' >= applied]_vars

\* C10: a handler starts a reconciliation only after its phase 2 succeeded;
\* a handler whose network check, phase 1 or phase 2 failed has started none.
C10_UpdateOnlyAfterConfirmation ==
  /\ \A h \in 1..Len(handlers) :
       /\ handlers[h].updatesStarted > 0 => handlers[h].confirmed
       /\ handlers[h].failed # "" => handlers[h].updatesStarted = 0
  /\ \A u \in updates : u.owner # 0 => handlers[u.owner].confirmed

C10_Witness ==
  \E h1, h2 \in 1..Len(handlers) :
    /\ handlers[h1].failed = "phase2"
    /\ handlers[h2].confirmed
    /\ handlers[h2].updatesStarted = 1

\* C11: the network check comes before phase 1. A handler called while the
\* wallet is on another chain and cannot be switched automatically fails at
\* the network check and ends without broadcasting a transaction, and no
\* handler that failed at the network check has broadcast one.
C11_WrongNetworkBlocksBroadcast ==
  \A h \in 1..Len(handlers) :
    /\ (handlers[h].chainAtEntry # "right" /\ ~canSwitch) =>
         /\ handlers[h].failed = "network"
         /\ handlers[h].pc = "done"
         /\ ~handlers[h].broadcast
    /\ handlers[h].failed = "network" => ~handlers[h].broadcast

C11_Witness ==
  /\ ~canSwitch
  /\ \E h1, h2 \in 1..Len(handlers) :
       /\ handlers[h1].kind = "submitProposal"
       /\ handlers[h2].kind = "executeProposal"
       /\ \A h \in {h1, h2} :
            /\ handlers[h].chainAtEntry = "wrong"
            /\ handlers[h].failed = "network"
            /\ ~handlers[h].broadcast

\* C12: for each action, a failure in phase 1 and a failure in phase 2 leave
\* the driver in different states: two handlers of the same kind, one failed
\* in phase 1 and one in phase 2, never leave the same refs and pending
\* counter behind.
C12_PhaseFailuresAreDistinct ==
  \A h1, h2 \in 1..Len(handlers) :
    (/\ handlers[h1].kind = handlers[h2].kind
     /\ handlers[h1].failed = "phase1"
     /\ handlers[h2].failed = "phase2")
      => handlers[h1].endState # handlers[h2].endState

\* a step in which a handler fails: at the network check, in phase 1 or in
\* phase 2
FailedIn(h) ==
  /\ h \in 1..Len(handlers')
  /\ handlers'[h].failed # ""
  /\ h > Len(handlers) \/ handlers[h].failed = ""

Clickable(kind) ==
  CASE kind = "approveBond" -> approveBondClickable
    [] kind = "submitProposal" -> submitProposalClickable
    [] kind = "executeProposal" -> executeProposalClickable

\* C13: a step in which an action fails (network check, phase 1 or phase 2)
\* leaves questionDetails as it was, so the derived state and the enabled
\* actions are the same after it as before it, and the button of the failed
\* action, where it is shown, can be clicked again.
C13_FailureKeepsStatus ==
  [][\A h \in 1..Len(handlers') :
       FailedIn(h) =>
         /\ questionDetails' = questionDetails
         /\ questionState' = questionState
         /\ EnabledActions' = EnabledActions
         /\ \A kind \in {"approveBond", "submitProposal", "executeProposal"} :
              (handlers'[h].kind = kind /\ kind \in EnabledActions')
                => Clickable(kind)']_vars

C13_Witness ==
  /\ HasStatus
  /\ questionState = "waitingForProposal"
  /\ \E h1, h2 \in 1..Len(handlers) :
       /\ handlers[h1].failed = "phase2"
       /\ handlers[h2].failed \in {"network", "phase1"}
       /\ h1 < h2

\* the status of a direct call with a batch, and the hash of that batch
CalledWithBatch == IsDefined(questionDetails) /\ IsDefined(transactions)
CalledHash == proposalHashOf(transactions[1])

\* C14: the status has executed = true exactly when a TransactionsProposed
\* event with this proposal's explanation and a ProposalExecuted event of
\* this batch's hash carry the same proposal time, wherever the two events
\* stand in their logs.
C14_ExecutedIffProposalTimesMeet ==
  CalledWithBatch =>
    (questionDetails[1].proposalExecuted <=>
       \E i \in 1..Len(proposedEvents), j \in 1..Len(executedEvents) :
         /\ proposedEvents[i].explanation = toUtf8Bytes(ProposalId)
         /\ executedEvents[j].proposalHash = CalledHash
         /\ proposedEvents[i].proposalTime = executedEvents[j].proposalTime)

C14_Witness ==
  /\ CalledWithBatch
  /\ questionDetails[1].proposalExecuted
  /\ Len(proposedEvents) = 2 /\ Len(executedEvents) = 2
  /\ proposedEvents[1].explanation # toUtf8Bytes(ProposalId)
  /\ executedEvents[2].proposalHash # CalledHash
  /\ executedEvents[2].proposalTime # executedEvents[1].proposalTime

\* the oracle events that carry the batch's ancillary data and the timestamp
\* the module stores for the batch's hash
FullMatches ==
  {i \in 1..Len(oracleEvents) :
     /\ oracleEvents[i].ancillaryData = ancillaryDataOf(CalledHash)
     /\ oracleEvents[i].timestamp = proposalHashes[CalledHash]}

\* C15: the proposalEvent of the status comes from an oracle event that
\* matches the batch in ancillary data and in timestamp; where no event
\* matches in both, proposalEvent is absent.
C15_EventMatchesDataAndTimestamp ==
  CalledWithBatch =>
    IF FullMatches = {}
      THEN questionDetails[1].proposalEvent = Undefined
      ELSE /\ IsDefined(questionDetails[1].proposalEvent)
           /\ \E i \in FullMatches :
                /\ questionDetails[1].proposalEvent[1].expirationTimestamp
                     = Some(oracleEvents[i].expirationTimestamp)
                /\ questionDetails[1].proposalEvent[1].proposalHash
                     = Some(CalledHash)

C15_Witness ==
  /\ CalledWithBatch
  /\ Len(oracleEvents) = 2
  /\ oracleEvents[1].ancillaryData = ancillaryDataOf(CalledHash)
  /\ oracleEvents[1].timestamp # proposalHashes[CalledHash]
  /\ FullMatches = {2}
  /\ IsDefined(questionDetails[1].proposalEvent)

\* C16: needsBondApproval is true exactly when minimumBond > 0 and
\* minimumBond > the allowance of the connected account; it is false when
\* the two are equal.
C16_NeedsApprovalIffBondExceedsAllowance ==
  IsDefined(questionDetails) =>
    (questionDetails[1].needsBondApproval <=>
       /\ questionDetails[1].minimumBond > 0
       /\ questionDetails[1].minimumBond > questionDetails[1].allowance)

\* the calls that read events, requests or the proposalHashes mapping
SubmissionCalls ==
  {"proposalHashes", "ProposePrice", "getRequest", "TransactionsProposed",
   "ProposalExecuted"}

\* C17: a call without a batch issues no oracle event query, no module event
\* query and no proposalHashes read, and its status marks no submission:
\* noTransactions, no active proposal, not executed.
C17_NoBatchIssuesNoQuery ==
  (IsDefined(questionDetails) /\ transactions = Undefined) =>
    /\ calls \cap SubmissionCalls = {}
    /\ questionDetails[1].noTransactions
    /\ ~questionDetails[1].activeProposal
    /\ ~questionDetails[1].proposalExecuted

C17_Witness ==
  /\ IsDefined(questionDetails)
  /\ transactions = Undefined
  /\ "multicall" \in calls
  /\ Len(oracleEvents) > 0 /\ Len(proposedEvents) > 0 /\ Len(executedEvents) > 0
  /\ questionDetails[1].noTransactions

\* C18: a call with an empty batch (no calls at all) takes the branch without
\* submission, as a call without a batch does: its status has noTransactions
\* and it issues no proposalHashes read and no event query.
C18_EmptyBatchIsNoSubmission ==
  (IsDefined(questionDetails) /\ transactions = Some(getTransactions(Batch0))) =>
    /\ questionDetails[1].noTransactions
    /\ calls \cap SubmissionCalls = {}

\* C19: whenever the clock has reached the expirationTimestamp of the
\* matched oracle event and the request is not settled (wallet connected,
\* not loading, status available), the derived state is Approved, also when
\* the status was reconciled while the dispute window was open.
C19_ExpiredUnsettledIsApproved ==
  (/\ HasProposalEvent
   /\ IsDefined(Event.expirationTimestamp)
   /\ now >= Event.expirationTimestamp[1]
   /\ ~Truthy(Event.isSettled)
   /\ ~request.settled)
    => questionState = "proposalApproved"

\* C20: Executed and Rejected are terminal: once the derived state is one of
\* them, every later reconciliation of the same proposal derives that same
\* state again.
C20_ExecutedAndRejectedAreTerminal ==
  [][(/\ HasStatus
      /\ questionState \in {"completelyExecuted", "proposalRejected"}
      /\ HasStatus')
       => questionState' = questionState]_vars

\* C21: within one reconciliation the allowance and the balance are read for
\* one account, the one that was connected when the reconciliation started,
\* also when the connected account changes during the reads.
C21_BondReadForOneAccount ==
  bondRead.pc = "done" =>
    /\ bondRead.allowanceFor = bondRead.startedFor
    /\ bondRead.balanceFor = bondRead.startedFor

\* C22: a call whose batch holds a destination that is not an address fails
\* before it issues any chain call.
C22_MalformedBatchFailsBeforeAnyCall ==
  (~loading /\ encodeThrows(transactions)) =>
    /\ questionDetails = Undefined
    /\ calls = {}

\* C23: the proposal hash separates batches: the hash that a reconciliation
\* reports for the proposal's batches is the hash of no other list of
\* batches, also of one that differs only in a call after the first one
\* inside a batch.
C23_HashSeparatesBatches ==
  HasProposalEvent =>
    \A other \in SampleBatches \ {batches} :
      Event.proposalHash # Some(proposalHashOf(getTransactions(other)))

\* C24: without a connected account the bond read issues no allowance and
\* no balance call and does not fail: the status carries allowance 0 and
\* balance 0, and needsBondApproval is true exactly when minimumBond > 0.
C24_NoAccountReadsNoBond ==
  (IsDefined(questionDetails) /\ ~IsDefined(account)) =>
    /\ questionDetails[1].allowance = 0
    /\ questionDetails[1].userBalance = 0
    /\ calls \cap {"allowance", "balanceOf"} = {}
    /\ questionDetails[1].needsBondApproval <=> questionDetails[1].minimumBond > 0

C24_Witness ==
  /\ IsDefined(questionDetails)
  /\ ~IsDefined(account)
  /\ allowance >= bondAmount /\ bondAmount > 0 /\ balance > 0
  /\ questionDetails[1].needsBondApproval

\* the handlers whose transaction is broadcast and not yet confirmed or failed
AwaitingConfirmation == {h \in 1..Len(handlers) : handlers[h].pc = "phase2"}

\* C25: pendingCount goes up once when phase 1 succeeds and down once when
\* phase 2 ends, by success or by failure: it counts the handlers between
\* broadcast and confirmation, never drops below its initial value 0 and is
\* 0 when no handler is between broadcast and confirmation.
C25_PendingCountsBroadcasts ==
  /\ pendingCount >= 0
  /\ pendingCount = Cardinality(AwaitingConfirmation)

\* the handlers between the success of phase 1 and the end of the
\* reconciliation that follows phase 2
BroadcastAndUnfinished ==
  {h \in 1..Len(handlers) : handlers[h].pc \in {"phase2", "sleep", "updating"}}

\* C26: while a handler is between the success of its phase 1 and the end
\* of phase 2 and of the reconciliation that follows, the button of the
\* same action cannot be clicked, and no second handler of the same kind
\* has broadcast a transaction.
C26_NoSecondBroadcastWhilePending ==
  \A h \in BroadcastAndUnfinished :
    /\ ~Clickable(handlers[h].kind)
    /\ \A h2 \in 1..Len(handlers) :
         (h2 # h /\ handlers[h2].kind = handlers[h].kind)
           => ~(h2 > h /\ handlers[h2].broadcast)

\* C27: loading is true as long as a reconciliation is in flight, so the
\* derived state is not computed from a status, and no action is enabled,
\* before the last reconciliation in flight has ended.
C27_LoadingWhileUpdating ==
  updates # {} =>
    /\ loading
    /\ EnabledActions = {}

\* C28: a status whose matched oracle event is inside its dispute window and
\* neither settled nor disputed is covered by no branch of questionState:
\* the derived state is Error and no action is enabled.
C28_InWindowIsError ==
  (/\ HasProposalEvent
   /\ Event.isExpired = Some(FALSE)
   /\ Event.isSettled = Some(FALSE)
   /\ Event.isDisputed = Some(FALSE))
    => /\ questionState = "error"
       /\ EnabledActions = {}

C28_Witness ==
  /\ HasProposalEvent
  /\ \E h \in 1..Len(handlers) :
       handlers[h].kind = "submitProposal" /\ handlers[h].pc = "done"
         /\ handlers[h].confirmed
  /\ Event.isExpired = Some(FALSE)
  /\ Event.isSettled = Some(FALSE)
  /\ Event.isDisputed = Some(FALSE)
  /\ now < ThisExpiration
  /\ questionState = "error"

\* a step in which the handler h comes to phase 1: its ensureRightNetwork
\* has returned normally
ReachesPhase1(h) ==
  /\ h \in 1..Len(handlers')
  /\ handlers'[h].pc = "phase1"
  /\ h > Len(handlers) \/ handlers[h].pc # "phase1"

\* C29: ensureRightNetwork returns normally only with the wallet on the
\* required chain, on entry or after the switch attempt and the wait; in
\* every other case the handler fails at the network check, so that no
\* handler comes to phase 1 on another chain.
C29_Phase1OnlyOnRightChain ==
  [][\A h \in 1..Len(handlers') :
       /\ ReachesPhase1(h) => walletChain' = "right"
       /\ (FailedIn(h) /\ handlers'[h].failed = "network")
            => (walletChain' # "right" /\ handlers'[h].pc = "done")]_vars

C29_Witness ==
  \E h1, h2 \in 1..Len(handlers) :
    /\ handlers[h1].chainAtEntry = "wrong"
    /\ handlers[h1].failed = "network"
    /\ handlers[h2].chainAtEntry = "wrong"
    /\ handlers[h2].broadcast

\* C30: every started action eventually clears its in-progress indicator
\* (actionInProgress for approveBond and submitProposal, action2InProgress
\* for executeProposal), whatever step succeeds or fails, as long as every
\* awaited call eventually resolves or rejects.
C30_IndicatorEventuallyCleared ==
  /\ (actionInProgress \in {"approve-bond", "submit-proposal"})
       ~> (actionInProgress = "null")
  /\ (action2InProgress = "execute-proposal") ~> (action2InProgress = "null")

C30_Witness ==
  /\ actionInProgress = "null"
  /\ action2InProgress = "null"
  /\ \E h1, h2 \in 1..Len(handlers) :
       /\ handlers[h1].kind = "submitProposal"
       /\ handlers[h1].pc = "done"
       /\ handlers[h2].kind = "executeProposal"
       /\ handlers[h2].pc = "done"

\* the requests made for one (explorer URL, contract address) pair
FetchesFor(url, contractAddress) ==
  { f \in DOMAIN httpFetches :
      /\ httpFetches[f].url = url
      /\ httpFetches[f].contractAddress = contractAddress }

\* the calls that went as far as the memoized fetchContractABI
ReachedFetch(i) == i \in DOMAIN abiCalls /\ abiCalls[i].promise # 0

\* the request came to a non-OK response or to a rejected fetch
FailedFetch(f) ==
  /\ IsDefined(httpFetches[f].response)
  /\ httpFetches[f].response[1].rejected \/ ~httpFetches[f].response[1].ok

SamePair(i, j) ==
  /\ apiUrlOf(abiCalls[i].network) = apiUrlOf(abiCalls[j].network)
  /\ abiCalls[i].contractAddress = abiCalls[j].contractAddress

\* C31: over any sequence of getContractABI calls at most one HTTP request
\* is made for each (explorer URL, contract address) pair; every call that
\* goes as far as fetchContractABI awaits the request made for its own pair,
\* so a later call with the same pair gets the outcome of the first without
\* a new request, a failed outcome included; and after a non-OK response or
\* a rejected fetch getContractABI returns the empty string and never throws.
C31_OneFetchPerPair ==
  /\ \A f \in DOMAIN httpFetches :
       FetchesFor(httpFetches[f].url, httpFetches[f].contractAddress) = {f}
  /\ \A i \in DOMAIN abiCalls :
       ReachedFetch(i) =>
         /\ FetchesFor(apiUrlOf(abiCalls[i].network)[1],
                       abiCalls[i].contractAddress) = {abiCalls[i].promise}
         /\ abiCalls[i].pc # "threw"
         /\ (abiCalls[i].pc = "returned" /\ FailedFetch(abiCalls[i].promise))
              => abiCalls[i].returned = ""
  /\ \A i, j \in DOMAIN abiCalls :
       (ReachedFetch(i) /\ ReachedFetch(j) /\ SamePair(i, j)) =>
         /\ abiCalls[i].promise = abiCalls[j].promise
         /\ (abiCalls[i].pc = "returned" /\ abiCalls[j].pc = "returned")
              => abiCalls[i].returned = abiCalls[j].returned

\* two calls with the same pair have both returned after the one request
\* made for the pair failed
C31_Witness ==
  \E i, j \in DOMAIN abiCalls :
    /\ i < j
    /\ ReachedFetch(i) /\ ReachedFetch(j) /\ SamePair(i, j)
    /\ abiCalls[i].pc = "returned" /\ abiCalls[j].pc = "returned"
    /\ FailedFetch(abiCalls[i].promise)
    /\ Len(httpFetches) = 1

====
